---- MODULE Spec2Model ----
(***************************************************************************)
(* A model of the frame prefetcher (framework/prefetcher.py), of the       *)
(* metadata cache of a Frame (framework/frames.py), of the RobotFrame      *)
(* actions (demo/robot_frames.py) and of the consumer loop of              *)
(* process_frames (framework/process_frames.py).                           *)
(*                                                                         *)
(* Threads: the consumer thread (constructor, get_frame, _schedule_prefetch*)
(* and the Frame that process_frames builds for the video size) and the    *)
(* worker threads of the ThreadPoolExecutor (_get_frame and the done       *)
(* callback).  Every action is one atomic step of one thread: a critical   *)
(* section of self.lock, one file system call, or one call of the query    *)
(* service.                                                                *)
(***************************************************************************)
EXTENDS Integers, Sequences, FiniteSets, TLC

\* ---------------------------------------------------------------- bounds
MaxIndex == 1
MaxLen == 3
MaxBuffer == 2
MaxWorkers == 2
MaxCalls == 4
MaxLoads == 2

Indices == 0..MaxIndex

\* ------------------------------------------------------- program constants
\* confidence_threshold=0.9, in hundredths
CONFIDENCE_THRESHOLD == 90

\* Python's None: as the value of "iq_id" (tokens are 1, 2, ...) and as the
\* value of "is_upside_down" (answers are "True" and "False")
NoToken == 0
None == "None"

Labels == {"YES", "NO", "UNCLEAR"}
Confidences == {CONFIDENCE_THRESHOLD - 1, CONFIDENCE_THRESHOLD}
\* what ask_ml and get_image_query can return as iq.result
IqResults == [confidence : Confidences, label : Labels]

\* RobotFrame.__init__: the defaults handed to Frame.__init__
initial_metadata == [iq_id |-> NoToken, is_upside_down |-> None]

\* ---------------------------------------------------------- metadata file
\* frame_<index>.json: missing, opened for writing and not yet written
\* (open(..., "w") truncates), or holding a JSON object
NoFile == [st |-> "absent"]
Truncated == [st |-> "empty"]
JsonFile(md) == [st |-> "json", data |-> md]

\* as MergeDefaults, with the defaults written over the stored keys
MergeDefaultsOverriding(existing, defaults) ==
    [k \in (DOMAIN existing) \cup (DOMAIN defaults) |->
        IF k \in DOMAIN defaults THEN defaults[k] ELSE existing[k]]

\* Frame.load_metadata, the merge loop: keys of the stored record win, keys
\* only the defaults have are added
MergeDefaults(existing, defaults) ==
    [k \in (DOMAIN existing) \cup (DOMAIN defaults) |->
        IF k \in DOMAIN existing THEN existing[k] ELSE defaults[k]]

\* Frame.load_metadata up to self.metadata: json.load of a truncated file
\* raises (JSONDecodeError)
LoadMetadata(file, defaults) ==
    IF file.st = "absent" THEN [ok |-> TRUE, metadata |-> defaults]
    ELSE IF file.st = "empty" THEN [ok |-> FALSE, metadata |-> defaults]
    ELSE [ok |-> TRUE, metadata |-> MergeDefaults(file.data, defaults)]

\* as UpdateMetadata, with the threshold itself not counted as confident
UpdateMetadataStrict(md, iq_id, result) ==
    IF result.confidence > CONFIDENCE_THRESHOLD /\ result.label # "UNCLEAR"
    THEN [md EXCEPT !.iq_id = iq_id,
                    !.is_upside_down = IF result.label = "YES" THEN "True" ELSE "False"]
    ELSE [md EXCEPT !.iq_id = iq_id]

\* RobotFrame._update_metadata, before save_metadata: the token is always
\* stored, the answer only when confident and clear
UpdateMetadata(md, iq_id, result) ==
    IF result.confidence >= CONFIDENCE_THRESHOLD /\ result.label # "UNCLEAR"
    THEN [md EXCEPT !.iq_id = iq_id,
                    !.is_upside_down = IF result.label = "YES" THEN "True" ELSE "False"]
    ELSE [md EXCEPT !.iq_id = iq_id]

\* as NeedsQuery, asking again as long as there is no answer
NeedsQueryUntilAnswered(md) == md.is_upside_down = None

\* RobotFrame.process_frame: the query is needed only without a token
NeedsQuery(md) == md.iq_id = NoToken

\* as CanUpdate, with the token check left out
CanUpdateAlways(md) == TRUE

\* RobotFrame.update_frame: there is nothing to refresh without a token
CanUpdate(md) == md.iq_id # NoToken

\* as NeedsRefresh, reading the query again on every call
NeedsRefreshAlways(md) == TRUE

\* RobotFrame.update_frame: the query is read again only without an answer
NeedsRefresh(md) == md.is_upside_down = None

\* as RefreshedMetadata, storing whatever the query says now
RefreshedMetadataAlways(md, result) ==
    [md EXCEPT !.is_upside_down =
        IF result.confidence >= CONFIDENCE_THRESHOLD /\ result.label # "UNCLEAR"
        THEN (IF result.label = "YES" THEN "True" ELSE "False")
        ELSE None]

\* RobotFrame.update_frame past the token check: self.metadata after it,
\* with result what get_image_query returns for the stored token
RefreshedMetadata(md, result) ==
    IF NeedsRefresh(md) THEN UpdateMetadata(md, md.iq_id, result) ELSE md

\* ------------------------------------------------------------------ state
VARIABLES
    indicies,       \* FramePrefetcher.indicies
    buffer_size,    \* FramePrefetcher.buffer_size
    num_workers,    \* max_workers of FramePrefetcher.executor
    frames,         \* the indices whose frame_<index>.jpg exists
    current_index,  \* FramePrefetcher.current_index (0-based)
    buffer,         \* FramePrefetcher.buffer: index -> result
    in_progress,    \* FramePrefetcher.in_progress
    tasks,          \* the futures of the executor, in submission order
    disk,           \* the metadata file of every index
    main,           \* the consumer thread: where it is, and its locals
    delivered,      \* what get_frame has returned, in order
    err,            \* the exception the consumer's last failed call raised
    iqlog,          \* per index, the results ask_ml has returned
    answered,       \* the indices whose metadata file has held a token
    calls,          \* the log of the direct calls on fresh Frame instances
    analysed,       \* what process_frames has handed to analysis_function
    warmed          \* what warm_up_frame_class has left when it returned

vars == <<indicies, buffer_size, num_workers, frames, current_index, buffer,
          in_progress, tasks, disk, main, delivered, err, iqlog, answered,
          calls, analysed, warmed>>

\* what no step of a prefetcher run changes: its parameters, the frame
\* files, and the logs of its callers
fixed == <<indicies, buffer_size, num_workers, frames, calls, analysed, warmed>>

\* indicies[current_index] of the code (sequences are 1-based here)
Expected == indicies[current_index + 1]

NoError == [kind |-> "none"]

\* the dictionary _get_frame returns, and the filler of an unset local
Result(idx, md) == [index |-> idx, result |-> md]
NoIndex == 0 - 1
NoData == Result(NoIndex, initial_metadata)

\* no warm_up_frame_class has run
NotWarmed == [done |-> FALSE]

\* The index sequences: non-empty, in any order, duplicates allowed
IndexSequences == UNION {[1..n -> Indices] : n \in 1..MaxLen}

\* The state at the last line of FramePrefetcher.__init__, about to call
\* _schedule_prefetch; no metadata file exists yet
Init ==
    /\ indicies \in IndexSequences
    /\ buffer_size \in 1..MaxBuffer
    /\ num_workers \in 1..MaxWorkers
    /\ frames \in SUBSET Indices
    /\ current_index = 0
    /\ buffer = [i \in {} |-> NoData]
    /\ in_progress = {}
    /\ tasks = <<>>
    /\ disk = [i \in Indices |-> NoFile]
    /\ main = [pc |-> "schedule", after |-> "ctor", todo |-> {}, ff |-> FALSE,
               metadata |-> initial_metadata, index |-> NoIndex, data |-> NoData]
    /\ delivered = <<>>
    /\ err = NoError
    /\ iqlog = [i \in Indices |-> <<>>]
    /\ answered = {}
    /\ calls = <<>>
    /\ analysed = <<>>
    /\ warmed = NotWarmed

\* ------------------------------------------------------------- prefetcher
\* where a Python slice [start:stop] of a list of len elements ends: a
\* negative stop counts from the end of the list
SliceEnd(len, stop) ==
    IF stop < 0 THEN (IF stop + len < 0 THEN 0 ELSE stop + len)
    ELSE IF stop > len THEN len ELSE stop

\* as Window, with a slice one element too short
WindowOneLess(seq, cur, size) ==
    {seq[k] : k \in {j \in 1..Len(seq) :
                        j > cur /\ j <= SliceEnd(Len(seq), cur + size - 1)}}

\* as Window, with a slice one element too long
WindowOneMore(seq, cur, size) ==
    {seq[k] : k \in {j \in 1..Len(seq) :
                        j > cur /\ j <= SliceEnd(Len(seq), cur + size + 1)}}

\* self.indicies[current_index : current_index + buffer_size], as a set
Window(seq, cur, size) ==
    {seq[k] : k \in {j \in 1..Len(seq) :
                        j > cur /\ j <= SliceEnd(Len(seq), cur + size)}}

\* as IndicesToFetch, without the in_progress set taken off
IndicesToFetchIgnoringInProgress ==
    Window(indicies, current_index, buffer_size) \ DOMAIN buffer

\* _schedule_prefetch: indices_to_fetch
IndicesToFetch ==
    (Window(indicies, current_index, buffer_size) \ DOMAIN buffer) \ in_progress

\* the consumer holds self.lock inside the loop of _schedule_prefetch
LockHeld == main.pc \in {"submit", "add_callback", "stuck"}

\* _schedule_prefetch returns to its caller: the constructor, or get_frame,
\* which then returns the popped data
ScheduleReturn(m) ==
    IF m.after = "get"
    THEN /\ delivered' = Append(delivered, m.data)
         /\ main' = [m EXCEPT !.pc = "idle", !.after = "none", !.todo = {},
                              !.index = NoIndex, !.data = NoData]
    ELSE /\ delivered' = delivered
         /\ main' = [m EXCEPT !.pc = "idle", !.after = "none", !.todo = {}]

\* _schedule_prefetch: takes the lock and computes indices_to_fetch
SchedulePrefetch ==
    /\ main.pc = "schedule"
    /\ IF IndicesToFetch = {}
       THEN ScheduleReturn(main)
       ELSE /\ main' = [main EXCEPT !.pc = "submit", !.todo = IndicesToFetch]
            /\ delivered' = delivered
    /\ UNCHANGED <<fixed, current_index, buffer, in_progress, tasks, disk,
                   err, iqlog, answered>>

NewTask(idx) == [idx |-> idx, pc |-> "queued", callback |-> FALSE,
                 metadata |-> initial_metadata]

\* the loop body up to executor.submit, for the next idx of the set
ScheduleSubmit(idx) ==
    /\ main.pc = "submit"
    /\ idx \in main.todo
    /\ in_progress' = in_progress \cup {idx}
    /\ tasks' = Append(tasks, NewTask(idx))
    /\ main' = [main EXCEPT !.pc = "add_callback", !.todo = @ \ {idx}]
    /\ UNCHANGED <<fixed, current_index, buffer, disk, delivered, err, iqlog,
                   answered>>

\* future.add_done_callback on the task just submitted.  A future that is
\* already done runs the callback at once, in this thread: a failed one
\* raises out of future.result() and is logged; a successful one asks for
\* self.lock, which this thread holds and which is not reentrant
ScheduleAddCallback ==
    /\ main.pc = "add_callback"
    /\ LET t == Len(tasks) IN
       IF tasks[t].pc = "finished"
       THEN /\ main' = [main EXCEPT !.pc = "stuck"]
            /\ UNCHANGED <<tasks, delivered>>
       ELSE /\ tasks' = IF tasks[t].pc = "failed" THEN tasks
                        ELSE [tasks EXCEPT ![t].callback = TRUE]
            /\ IF main.todo = {}
               THEN ScheduleReturn(main)
               ELSE /\ main' = [main EXCEPT !.pc = "submit"]
                    /\ delivered' = delivered
    /\ UNCHANGED <<fixed, current_index, buffer, in_progress, disk, err,
                   iqlog, answered>>


\* ---------------------------------------------------------------- workers
\* a worker thread is occupied from the start of _get_frame until the done
\* callback has returned
Running(task) ==
    task.pc \in {"load", "ctor_open", "ctor_dump", "process", "upd_open",
                 "upd_dump", "callback"}

\* a task that is queued, running, or finished with its result not stored
Live(task) == task.pc = "queued" \/ Running(task) \/ task.pc = "finished"

NumRunning == Cardinality({t \in 1..Len(tasks) : Running(tasks[t])})

\* the task function raised: the future holds the exception, the callback
\* (run by whichever thread) re-raises it out of future.result(), before it
\* touches buffer or in_progress, and the executor logs it
Failed(task) == [task EXCEPT !.pc = "failed", !.metadata = initial_metadata]

\* the task function returned: the worker runs the callback if it is
\* registered by now, else the future stays done until add_done_callback
Returned(task) ==
    [task EXCEPT !.pc = IF task.callback THEN "callback" ELSE "finished"]

\* as WorkerFree, for an executor that starts a thread for every task
WorkerFreeAlways == TRUE

\* ThreadPoolExecutor(max_workers=num_workers): a queued task starts only
\* while fewer than max_workers threads are busy
WorkerFree == NumRunning < num_workers

\* A free worker takes the oldest queued task: _get_frame, Frame.__init__
\* up to the check of frame_path
TaskStart(t) ==
    /\ tasks[t].pc = "queued"
    /\ \A u \in 1..(t - 1) : tasks[u].pc # "queued"
    /\ WorkerFree
    /\ tasks' = [tasks EXCEPT ![t] =
                    IF tasks[t].idx \in frames
                    THEN [tasks[t] EXCEPT !.pc = "load"]
                    ELSE Failed(tasks[t])]
    /\ UNCHANGED <<fixed, current_index, buffer, in_progress, disk, main,
                   delivered, err, iqlog, answered>>

\* Frame.load_metadata: os.path.exists and json.load
TaskLoad(t) ==
    /\ tasks[t].pc = "load"
    /\ LET out == LoadMetadata(disk[tasks[t].idx], initial_metadata) IN
       tasks' = [tasks EXCEPT ![t] =
                    IF out.ok
                    THEN [tasks[t] EXCEPT !.pc = "ctor_open",
                                          !.metadata = out.metadata]
                    ELSE Failed(tasks[t])]
    /\ UNCHANGED <<fixed, current_index, buffer, in_progress, disk, main,
                   delivered, err, iqlog, answered>>

\* Frame.save_metadata: open(self.metadata_path, "w")
TaskOpen(t) ==
    /\ tasks[t].pc \in {"ctor_open", "upd_open"}
    /\ disk' = [disk EXCEPT ![tasks[t].idx] = Truncated]
    /\ tasks' = [tasks EXCEPT ![t].pc =
                    IF tasks[t].pc = "ctor_open" THEN "ctor_dump" ELSE "upd_dump"]
    /\ UNCHANGED <<fixed, current_index, buffer, in_progress, main,
                   delivered, err, iqlog, answered>>

\* the indices whose file holds a token after md is written to idx's file
Answered(idx, md) ==
    IF md.iq_id # NoToken THEN answered \cup {idx} ELSE answered

\* Frame.save_metadata: json.dump and close; after the constructor's save
\* comes process_frame, after _update_metadata's save process_frame returns
TaskDump(t) ==
    /\ tasks[t].pc \in {"ctor_dump", "upd_dump"}
    /\ disk' = [disk EXCEPT ![tasks[t].idx] = JsonFile(tasks[t].metadata)]
    /\ answered' = Answered(tasks[t].idx, tasks[t].metadata)
    /\ tasks' = [tasks EXCEPT ![t] =
                    IF tasks[t].pc = "ctor_dump"
                    THEN [tasks[t] EXCEPT !.pc = "process"]
                    ELSE Returned(tasks[t])]
    /\ UNCHANGED <<fixed, current_index, buffer, in_progress, main,
                   delivered, err, iqlog>>

\* RobotFrame.process_frame: ask_ml and _update_metadata up to its save, or
\* the cache hit, which returns at once
TaskProcessFrame(t) ==
    /\ tasks[t].pc = "process"
    /\ LET idx == tasks[t].idx IN
       IF NeedsQuery(tasks[t].metadata)
       THEN \E result \in IqResults :
              /\ iqlog' = [iqlog EXCEPT ![idx] = Append(@, result)]
              /\ tasks' = [tasks EXCEPT ![t] =
                    [tasks[t] EXCEPT
                        !.pc = "upd_open",
                        !.metadata = UpdateMetadata(@, Len(iqlog[idx]) + 1, result)]]
       ELSE /\ tasks' = [tasks EXCEPT ![t] = Returned(tasks[t])]
            /\ iqlog' = iqlog
    /\ UNCHANGED <<fixed, current_index, buffer, in_progress, disk, main,
                   delivered, err, answered>>

\* _store_frame_callback on a worker thread, the critical section
TaskCallback(t) ==
    /\ tasks[t].pc = "callback"
    /\ ~LockHeld
    /\ LET idx == tasks[t].idx IN
       /\ buffer' = [i \in (DOMAIN buffer) \cup {idx} |->
                        IF i = idx THEN Result(idx, tasks[t].metadata)
                        ELSE buffer[i]]
       /\ in_progress' = in_progress \ {idx}
    /\ tasks' = [tasks EXCEPT ![t] =
                    [tasks[t] EXCEPT !.pc = "stored", !.metadata = initial_metadata]]
    /\ UNCHANGED <<fixed, current_index, disk, main, delivered, err, iqlog,
                   answered>>

\* --------------------------------------------------------------- consumer
\* an exception: its type, the index the failed call was given, and the
\* index its message names
Raise(kind, index, expected) ==
    [kind |-> kind, index |-> index, expected |-> expected]

\* as InOrder, comparing with the head of the sequence, not the cursor's
InOrderOfHead(index) == index = indicies[1]

\* get_frame: the order check passes
InOrder(index) == index = Expected

\* as AdvanceCursor, one step too far
AdvanceCursorTwice(cur) == cur + 2

\* get_frame: self.current_index += 1
AdvanceCursor(cur) == cur + 1

\* process_frames, "first_frame = frame_class(indices[0]).image", before the
\* first get_frame: Frame.__init__ up to the check of frame_path (with no
\* indices, pool_size is 0 and process_frames does not get this far)
FirstFrame ==
    /\ main.pc = "idle"
    /\ ~main.ff
    /\ current_index = 0
    /\ indicies # <<>>
    /\ IF indicies[1] \in frames
       THEN /\ main' = [main EXCEPT !.pc = "ff_load", !.ff = TRUE]
            /\ err' = NoError
       ELSE /\ main' = [main EXCEPT !.pc = "aborted", !.ff = TRUE]
            /\ err' = Raise("FileNotFoundError", indicies[1], NoIndex)
    /\ UNCHANGED <<fixed, current_index, buffer, in_progress, tasks, disk,
                   delivered, iqlog, answered>>

FirstFrameLoad ==
    /\ main.pc = "ff_load"
    /\ LET out == LoadMetadata(disk[indicies[1]], initial_metadata) IN
       IF out.ok
       THEN /\ main' = [main EXCEPT !.pc = "ff_open", !.metadata = out.metadata]
            /\ err' = err
       ELSE /\ main' = [main EXCEPT !.pc = "aborted"]
            /\ err' = Raise("JSONDecodeError", indicies[1], NoIndex)
    /\ UNCHANGED <<fixed, current_index, buffer, in_progress, tasks, disk,
                   delivered, iqlog, answered>>

FirstFrameOpen ==
    /\ main.pc = "ff_open"
    /\ disk' = [disk EXCEPT ![indicies[1]] = Truncated]
    /\ main' = [main EXCEPT !.pc = "ff_dump"]
    /\ UNCHANGED <<fixed, current_index, buffer, in_progress, tasks,
                   delivered, err, iqlog, answered>>

FirstFrameDump ==
    /\ main.pc = "ff_dump"
    /\ disk' = [disk EXCEPT ![indicies[1]] = JsonFile(main.metadata)]
    /\ answered' = Answered(indicies[1], main.metadata)
    /\ main' = [main EXCEPT !.pc = "idle", !.metadata = initial_metadata]
    /\ UNCHANGED <<fixed, current_index, buffer, in_progress, tasks,
                   delivered, err, iqlog>>

\* get_frame(index), the order check: past the end indicies[current_index]
\* raises IndexError, another index than the expected one raises
\* ValueError, the expected one enters the wait loop
GetFrame(index) ==
    /\ main.pc = "idle"
    /\ IF current_index >= Len(indicies)
       THEN /\ err' = Raise("IndexError", index, NoIndex)
            /\ main' = main
       ELSE IF ~InOrder(index)
       THEN /\ err' = Raise("ValueError", index, Expected)
            /\ main' = main
       ELSE /\ err' = NoError
            /\ main' = [main EXCEPT !.pc = "wait", !.index = index]
    /\ UNCHANGED <<fixed, current_index, buffer, in_progress, tasks, disk,
                   delivered, iqlog, answered>>

\* as Popped, taking whatever result is in the buffer
PoppedAny == CHOOSE i \in DOMAIN buffer : TRUE

\* get_frame: the key of self.buffer.pop(self.indicies[self.current_index])
Popped == Expected

\* get_frame: the wait loop ends, the critical section pops the result and
\* advances the cursor; _schedule_prefetch follows
GetFramePop ==
    /\ main.pc = "wait"
    /\ Expected \in DOMAIN buffer
    /\ buffer' = [i \in (DOMAIN buffer) \ {Popped} |-> buffer[i]]
    /\ current_index' = AdvanceCursor(current_index)
    /\ main' = [main EXCEPT !.pc = "schedule", !.after = "get",
                            !.data = buffer[Popped]]
    /\ UNCHANGED <<fixed, in_progress, tasks, disk, delivered, err, iqlog,
                   answered>>

\* ----------------------------------------------------------- direct calls
\* One thread constructs a fresh Frame of an index and calls one of its
\* actions, as the loops of utils.py and a test do; each call is logged
\* with the metadata file before it, after its constructor and after it.
NoResult == [label |-> "none"]
NoReturn == [returned |-> "nothing"]

\* what Frame.__init__ raises for idx, "none" when it succeeds
InitRaises(idx) ==
    IF idx \notin frames THEN "FileNotFoundError"
    ELSE IF ~LoadMetadata(disk[idx], initial_metadata).ok THEN "JSONDecodeError"
    ELSE "none"

\* the metadata file of idx when Frame.__init__ has returned or raised:
\* load_metadata writes the merged record back
Constructed(idx) ==
    IF InitRaises(idx) # "none" THEN disk[idx]
    ELSE JsonFile(LoadMetadata(disk[idx], initial_metadata).metadata)

Call(op, idx, raised, after, asked, fetched, got, returned) ==
    [op |-> op, idx |-> idx, raised |-> raised, before |-> disk[idx],
     constructed |-> Constructed(idx),
     after |-> after, asked |-> asked, fetched |-> fetched, got |-> got,
     returned |-> returned]

\* Frame.__init__ raised: nothing was written
CallRaisedInInit(op, idx, kind) ==
    /\ calls' = Append(calls, Call(op, idx, kind, disk[idx], 0, 0, NoResult, NoReturn))
    /\ UNCHANGED <<disk, iqlog, answered>>

\* the call ended with md written to the file of idx
CallEnded(op, idx, raised, md, asked, fetched, got, returned) ==
    /\ disk' = [disk EXCEPT ![idx] = JsonFile(md)]
    /\ answered' = Answered(idx, md)
    /\ calls' = Append(calls, Call(op, idx, raised, JsonFile(md), asked, fetched,
                                   got, returned))

unlogged == <<indicies, buffer_size, num_workers, frames, current_index,
              buffer, in_progress, tasks, main, delivered, err, analysed,
              warmed>>

\* frame_class(idx), as proportion_with_answer does
CallConstruct(idx) ==
    /\ Len(calls) < MaxCalls
    /\ IF InitRaises(idx) # "none"
       THEN CallRaisedInInit("construct", idx, InitRaises(idx))
       ELSE /\ CallEnded("construct", idx, "none",
                         LoadMetadata(disk[idx], initial_metadata).metadata,
                         0, 0, NoResult, NoReturn)
            /\ iqlog' = iqlog
    /\ UNCHANGED unlogged

\* frame_class(idx).process_frame()
CallProcessFrame(idx) ==
    /\ Len(calls) < MaxCalls
    /\ IF InitRaises(idx) # "none"
       THEN CallRaisedInInit("process", idx, InitRaises(idx))
       ELSE LET md == LoadMetadata(disk[idx], initial_metadata).metadata IN
            IF NeedsQuery(md)
            THEN \E result \in IqResults :
                   LET new == UpdateMetadata(md, Len(iqlog[idx]) + 1, result) IN
                   /\ iqlog' = [iqlog EXCEPT ![idx] = Append(@, result)]
                   /\ CallEnded("process", idx, "none", new, 1, 0, result, new)
            ELSE /\ iqlog' = iqlog
                 /\ CallEnded("process", idx, "none", md, 0, 0, NoResult, md)
    /\ UNCHANGED unlogged

\* frame_class(idx).update_frame()
CallUpdateFrame(idx) ==
    /\ Len(calls) < MaxCalls
    /\ IF InitRaises(idx) # "none"
       THEN CallRaisedInInit("update", idx, InitRaises(idx))
       ELSE LET md == LoadMetadata(disk[idx], initial_metadata).metadata IN
            /\ iqlog' = iqlog
            /\ IF ~CanUpdate(md)
               THEN CallEnded("update", idx, "ValueError", md, 0, 0, NoResult,
                              NoReturn)
               ELSE \E result \in IqResults :
                      CallEnded("update", idx, "none",
                                RefreshedMetadata(md, result), 0,
                                IF NeedsRefresh(md) THEN 1 ELSE 0,
                                IF NeedsRefresh(md) THEN result ELSE NoResult,
                                NoReturn)
    /\ UNCHANGED unlogged

\* ---------------------------------------------------------- specification
Next ==
    \/ SchedulePrefetch
    \/ \E idx \in Indices : ScheduleSubmit(idx)
    \/ ScheduleAddCallback
    \/ \E t \in 1..Len(tasks) : TaskStart(t)
    \/ \E t \in 1..Len(tasks) : TaskLoad(t)
    \/ \E t \in 1..Len(tasks) : TaskOpen(t)
    \/ \E t \in 1..Len(tasks) : TaskDump(t)
    \/ \E t \in 1..Len(tasks) : TaskProcessFrame(t)
    \/ \E t \in 1..Len(tasks) : TaskCallback(t)
    \/ FirstFrame
    \/ FirstFrameLoad
    \/ FirstFrameOpen
    \/ FirstFrameDump
    \/ \E index \in Indices : GetFrame(index)
    \/ GetFramePop

Spec == Init /\ [][Next]_vars

\* ------------------------------------------------------------ construction
\* The arguments a caller can hand to FramePrefetcher(...), action left at
\* its default: any list of indices, the empty one included, and any
\* numbers, zero and negative ones included
CtorInit ==
    /\ indicies \in UNION {[1..n -> Indices] : n \in 0..MaxLen}
    /\ buffer_size \in (0 - 1)..MaxBuffer
    /\ num_workers \in 0..MaxWorkers
    /\ frames \in SUBSET Indices
    /\ current_index = 0
    /\ buffer = [i \in {} |-> NoData]
    /\ in_progress = {}
    /\ tasks = <<>>
    /\ disk = [i \in Indices |-> NoFile]
    /\ main = [pc |-> "construct", after |-> "ctor", todo |-> {}, ff |-> FALSE,
               metadata |-> initial_metadata, index |-> NoIndex, data |-> NoData]
    /\ delivered = <<>>
    /\ err = NoError
    /\ iqlog = [i \in Indices |-> <<>>]
    /\ answered = {}
    /\ calls = <<>>
    /\ analysed = <<>>
    /\ warmed = NotWarmed

\* FramePrefetcher.__init__ up to its last line: the fields are set without
\* a check; ThreadPoolExecutor raises ValueError for max_workers <= 0
Construct ==
    /\ main.pc = "construct"
    /\ IF num_workers <= 0
       THEN /\ main' = [main EXCEPT !.pc = "ctor_failed"]
            /\ err' = Raise("ValueError", NoIndex, NoIndex)
       ELSE /\ main' = [main EXCEPT !.pc = "schedule"]
            /\ err' = err
    /\ UNCHANGED <<fixed, current_index, buffer, in_progress, tasks, disk,
                   delivered, iqlog, answered>>

CtorNext == Construct \/ Next

SpecCtor == CtorInit /\ [][CtorNext]_vars

\* Direct calls on the one index of indicies, from an empty store
CallsInit ==
    /\ Init
    /\ Len(indicies) = 1
    /\ buffer_size = 1
    /\ num_workers = 1

CallsNext ==
    \/ \E idx \in Indices : idx = indicies[1] /\ CallConstruct(idx)
    \/ \E idx \in Indices : idx = indicies[1] /\ CallProcessFrame(idx)
    \/ \E idx \in Indices : idx = indicies[1] /\ CallUpdateFrame(idx)

SpecCalls == CallsInit /\ [][CallsNext]_vars

\* ------------------------------------------------- Frame(index, defaults)
\* Metadata records of any Frame subclass: string keys, JSON numbers as
\* values (json.dump and json.load are inverse on these)
Keys == {"a", "b"}
Values == {1, 2, 99}
Records == UNION {[K -> Values] : K \in SUBSET Keys}

\* what a metadata file left by earlier runs can be
StoredFiles == {NoFile, Truncated} \cup {JsonFile(R) : R \in Records}

\* as FrameInit, with the metadata loaded before the frame file is looked for
FrameInitLoadFirst(idx, D) ==
    IF ~LoadMetadata(disk[idx], D).ok
    THEN [raised |-> "JSONDecodeError", file |-> disk[idx], metadata |-> D]
    ELSE [raised |-> IF idx \notin frames THEN "FileNotFoundError" ELSE "none",
          file |-> JsonFile(LoadMetadata(disk[idx], D).metadata),
          metadata |-> LoadMetadata(disk[idx], D).metadata]

\* Frame.__init__(idx, D) run by one thread alone: what it raises, the
\* metadata file it leaves and self.metadata
FrameInit(idx, D) ==
    IF idx \notin frames
    THEN [raised |-> "FileNotFoundError", file |-> disk[idx], metadata |-> D]
    ELSE IF ~LoadMetadata(disk[idx], D).ok
    THEN [raised |-> "JSONDecodeError", file |-> disk[idx], metadata |-> D]
    ELSE [raised |-> "none",
          file |-> JsonFile(LoadMetadata(disk[idx], D).metadata),
          metadata |-> LoadMetadata(disk[idx], D).metadata]

\* Frame(idx, D), logged with the file before and after it
CallLoad(idx, D) ==
    /\ Len(calls) < MaxLoads
    /\ disk' = [disk EXCEPT ![idx] = FrameInit(idx, D).file]
    /\ calls' = Append(calls, [op |-> "load", idx |-> idx, defaults |-> D,
                               raised |-> FrameInit(idx, D).raised,
                               before |-> disk[idx],
                               after |-> FrameInit(idx, D).file,
                               returned |-> FrameInit(idx, D).metadata])
    /\ UNCHANGED <<iqlog, answered>>
    /\ UNCHANGED unlogged

\* A store in which earlier runs, with whatever defaults, have left a file
\* for the index indicies[1]; no prefetcher is at work
LoadInit ==
    /\ indicies \in [1..1 -> Indices]
    /\ buffer_size = 1
    /\ num_workers = 1
    /\ frames \in SUBSET Indices
    /\ current_index = 0
    /\ buffer = [i \in {} |-> NoData]
    /\ in_progress = {}
    /\ tasks = <<>>
    /\ disk \in {d \in [Indices -> StoredFiles] :
                    \A i \in Indices : i # indicies[1] => d[i] = NoFile}
    /\ main = [pc |-> "idle", after |-> "none", todo |-> {}, ff |-> FALSE,
               metadata |-> initial_metadata, index |-> NoIndex, data |-> NoData]
    /\ delivered = <<>>
    /\ err = NoError
    /\ iqlog = [i \in Indices |-> <<>>]
    /\ answered = {}
    /\ calls = <<>>
    /\ analysed = <<>>
    /\ warmed = NotWarmed

LoadNext == \E idx \in Indices, D \in Records : CallLoad(idx, D)

SpecLoad == LoadInit /\ [][LoadNext]_vars


\* the steps a worker thread takes on its own
WorkerStep ==
    \E t \in 1..Len(tasks) :
        \/ TaskStart(t)
        \/ TaskLoad(t)
        \/ TaskOpen(t)
        \/ TaskDump(t)
        \/ TaskProcessFrame(t)
        \/ TaskCallback(t)

\* the steps the consumer thread takes inside a call it has made
ConsumerStep ==
    \/ SchedulePrefetch
    \/ \E idx \in Indices : ScheduleSubmit(idx)
    \/ ScheduleAddCallback
    \/ FirstFrameLoad
    \/ FirstFrameOpen
    \/ FirstFrameDump
    \/ GetFramePop

\* Every thread that can run does run (the operating system's scheduler,
\* time.sleep(0.01) in the wait loop); the consumer is free not to call
FairSpec == Spec /\ WF_vars(WorkerStep) /\ WF_vars(ConsumerStep)

\* ----------------------------------------------------------- process_frames
\* pool_size = min(len(indices), 32)
POOL_LIMIT == 32
PoolSize(n) == IF n < POOL_LIMIT THEN n ELSE POOL_LIMIT

\* a prefetcher at the last line of its constructor, nothing fetched yet
NewPrefetcher ==
    /\ current_index = 0
    /\ buffer = [i \in {} |-> NoData]
    /\ in_progress = {}
    /\ tasks = <<>>
    /\ main = [pc |-> "schedule", after |-> "ctor", todo |-> {}, ff |-> FALSE,
               metadata |-> initial_metadata, index |-> NoIndex, data |-> NoData]
    /\ delivered = <<>>
    /\ err = NoError
    /\ analysed = <<>>

\* no metadata file exists, no query was asked
EmptyStore ==
    /\ disk = [i \in Indices |-> NoFile]
    /\ iqlog = [i \in Indices |-> <<>>]
    /\ answered = {}
    /\ calls = <<>>

\* process_frames at the last line of the constructor of its prefetcher:
\* buffer_size and num_workers are both pool_size
PipelineInit ==
    /\ indicies \in IndexSequences
    /\ buffer_size = PoolSize(Len(indicies))
    /\ num_workers = PoolSize(Len(indicies))
    /\ frames \in SUBSET Indices
    /\ NewPrefetcher
    /\ EmptyStore
    /\ warmed = NotWarmed

\* "for index in indices: prefetcher.get_frame(index)": the call of the next
\* iteration, the one before it being over
LoopGetFrame ==
    /\ Len(analysed) = Len(delivered)
    /\ Len(delivered) < Len(indicies)
    /\ GetFrame(indicies[Len(delivered) + 1])

\* processed_frame = prefetcher.get_frame(index)["result"]
ProcessedFrame == delivered[Len(delivered)]

\* analysis_function(processed_frame) and the isinstance check of what it
\* returns: ValueError for anything but a ProcessedFrame
Analyse ==
    /\ main.pc = "idle"
    /\ Len(analysed) < Len(delivered)
    /\ analysed' = Append(analysed, ProcessedFrame)
    /\ \E ok \in BOOLEAN :
          IF ok
          THEN main' = main /\ err' = err
          ELSE /\ main' = [main EXCEPT !.pc = "aborted"]
               /\ err' = Raise("ValueError", ProcessedFrame.index, NoIndex)
    /\ UNCHANGED <<indicies, buffer_size, num_workers, frames, calls, warmed,
                   current_index, buffer, in_progress, tasks, disk, delivered,
                   iqlog, answered>>

\* the for loop has run through indices
LoopEnd ==
    /\ main.pc = "idle"
    /\ Len(delivered) = Len(indicies)
    /\ Len(analysed) = Len(delivered)
    /\ main' = [main EXCEPT !.pc = "done"]
    /\ UNCHANGED <<fixed, current_index, buffer, in_progress, tasks, disk,
                   delivered, err, iqlog, answered>>

PipelineNext ==
    \/ WorkerStep
    \/ ConsumerStep
    \/ FirstFrame
    \/ LoopGetFrame
    \/ Analyse
    \/ LoopEnd

SpecPipeline == PipelineInit /\ [][PipelineNext]_vars

\* ------------------------------------------------------ warm_up_frame_class
\* FramePrefetcher.__init__: buffer_size = 8, num_workers = 8 by default
DEFAULT_BUFFER_SIZE == 8
DEFAULT_NUM_WORKERS == 8

\* warm_up_frame_class over a list of indices, at the last line of the
\* constructor of its prefetcher (default sizes, action "process")
WarmInit ==
    /\ indicies \in IndexSequences
    /\ buffer_size = DEFAULT_BUFFER_SIZE
    /\ num_workers = DEFAULT_NUM_WORKERS
    /\ frames \in SUBSET Indices
    /\ NewPrefetcher
    /\ EmptyStore
    /\ warmed = NotWarmed

\* "for index in indicies: prefetcher.get_frame(index)"; process_frames
\* without an analysis function loops the same way
WarmUpGetFrame ==
    /\ Len(delivered) < Len(indicies)
    /\ GetFrame(indicies[Len(delivered) + 1])

\* warm_up_frame_class returns, and a later run starts over seq, a list of
\* indices that were warmed up: process_frames or warm_up_frame_class again,
\* each with a prefetcher of its own
WarmUpReturns(seq, later) ==
    /\ ~warmed.done
    /\ main.pc = "idle"
    /\ Len(delivered) = Len(indicies)
    /\ \A k \in 1..Len(seq) : seq[k] \in {indicies[j] : j \in 1..Len(indicies)}
    /\ warmed' = [done |-> TRUE, later |-> later, disk |-> disk, iqlog |-> iqlog]
    /\ indicies' = seq
    /\ buffer_size' = IF later = "warm_up" THEN DEFAULT_BUFFER_SIZE
                      ELSE PoolSize(Len(seq))
    /\ num_workers' = IF later = "warm_up" THEN DEFAULT_NUM_WORKERS
                      ELSE PoolSize(Len(seq))
    /\ current_index' = 0
    /\ buffer' = [i \in {} |-> NoData]
    /\ in_progress' = {}
    /\ tasks' = <<>>
    /\ main' = [pc |-> "schedule", after |-> "ctor", todo |-> {}, ff |-> FALSE,
                metadata |-> initial_metadata, index |-> NoIndex, data |-> NoData]
    /\ delivered' = <<>>
    /\ err' = NoError
    /\ UNCHANGED <<frames, disk, iqlog, answered, calls, analysed>>

\* process_frames with an output_path builds the Frame of indices[0]
LaterFirstFrame ==
    /\ warmed.done
    /\ warmed.later = "process_frames"
    /\ FirstFrame

WarmNext ==
    \/ WorkerStep
    \/ ConsumerStep
    \/ WarmUpGetFrame
    \/ \E seq \in IndexSequences, later \in {"process_frames", "warm_up"} :
          WarmUpReturns(seq, later)
    \/ LaterFirstFrame

SpecWarm == WarmInit /\ [][WarmNext]_vars

\* ----------------------------------------------------------------- claims
IndexSet == {indicies[k] : k \in 1..Len(indicies)}

NoTaskFailed == \A t \in 1..Len(tasks) : tasks[t].pc # "failed"

LiveTasks(i) == {t \in 1..Len(tasks) : tasks[t].idx = i /\ Live(tasks[t])}

\* C1: the k-th result get_frame returns carries the index indicies[k],
\* whatever the order in which the worker tasks complete
C1_DeliveredInOrder ==
    /\ Len(delivered) <= Len(indicies)
    /\ \A k \in 1..Len(delivered) : delivered[k].index = indicies[k]

\* a whole non-monotonic sequence with a duplicate was delivered, and the
\* task of its second index was submitted before the task of its first
C1_Witness ==
    /\ indicies = <<1, 0, 1>>
    /\ Len(delivered) = Len(indicies)
    /\ NoTaskFailed
    /\ tasks[1].idx = 0

\* C2: per index, the tasks that are queued, running or finished but not
\* yet stored, plus the buffered result, number at most one
C2_OneTaskPerIndex ==
    \A i \in Indices :
        Cardinality(LiveTasks(i)) + (IF i \in DOMAIN buffer THEN 1 ELSE 0) <= 1

\* an index that occurs twice is in flight for the second time, after its
\* first result was consumed
C2_Witness ==
    \E t, u \in 1..Len(tasks) :
        /\ t < u
        /\ tasks[t].idx = tasks[u].idx
        /\ tasks[t].pc = "stored"
        /\ Running(tasks[u])
        /\ Len(delivered) >= 1

\* C3: the buffer never holds more than buffer_size results
C3_BoundedBuffer == Cardinality(DOMAIN buffer) <= buffer_size

\* the buffer is full while indices remain beyond the window
C3_Witness ==
    /\ Cardinality(DOMAIN buffer) = buffer_size
    /\ Len(indicies) > current_index + buffer_size
    /\ main.pc = "idle"

\* C4 (as claimed): a metadata file that has held a token holds a token
\* whenever it holds a record, and no index is queried a second time
C4_AnsweredNeverRequeried ==
    /\ \A i \in answered :
          disk[i].st = "json" => disk[i].data.iq_id # NoToken
    /\ \A i \in Indices : Len(iqlog[i]) <= 1

\* the answer a metadata file holds
AnswerIn(file) == IF file.st = "json" THEN file.data.is_upside_down ELSE None

Confident(result) ==
    /\ result # NoResult
    /\ result.confidence >= CONFIDENCE_THRESHOLD
    /\ result.label # "UNCLEAR"

\* C5: of two process_frame calls in a row on fresh instances of an index,
\* at most one asks the query service, and both leave the same file and
\* return the same metadata
C5_ProcessIdempotent ==
    \A k \in 1..(Len(calls) - 1) :
        (/\ calls[k].op = "process" /\ calls[k].raised = "none"
         /\ calls[k + 1].op = "process") =>
            /\ calls[k + 1].raised = "none"
            /\ calls[k].asked + calls[k + 1].asked <= 1
            /\ calls[k + 1].after = calls[k].after
            /\ calls[k + 1].returned = calls[k].returned

\* the first of two process_frame calls asked and got no confident answer
C5_Witness ==
    \E k \in 1..(Len(calls) - 1) :
        /\ calls[k].op = "process" /\ calls[k].asked = 1
        /\ calls[k].returned.is_upside_down = None
        /\ calls[k + 1].op = "process"
        /\ calls[k + 1].asked = 0

\* C6: a call that finds an answer in the file leaves that answer, unless
\* it got a confident and clear result and leaves an answer
C6_AnswerKept ==
    \A k \in 1..Len(calls) :
        AnswerIn(calls[k].before) # None =>
            \/ AnswerIn(calls[k].after) = AnswerIn(calls[k].before)
            \/ (Confident(calls[k].got) /\ AnswerIn(calls[k].after) # None)

\* an answered index went through a process_frame and an update_frame call
C6_Witness ==
    \E k \in 1..(Len(calls) - 1) :
        /\ AnswerIn(calls[k].before) = "True"
        /\ calls[k].op = "process"
        /\ calls[k + 1].op = "update"
        /\ AnswerIn(calls[k + 1].after) = "True"

\* C7 (as claimed): the index of a failed task is no longer in in_progress
C7_FailureReleasesSlot ==
    \A t \in 1..Len(tasks) :
        tasks[t].pc = "failed" =>
            (tasks[t].idx \notin in_progress \/ LiveTasks(tasks[t].idx) # {})

\* the consumer waits in get_frame for an index whose task has failed
WaitingOnFailedTask ==
    /\ main.pc = "wait"
    /\ \E t \in 1..Len(tasks) :
          tasks[t].idx = Expected /\ tasks[t].pc = "failed"

\* C8 (as claimed): a get_frame call that waits for an index whose task
\* has failed ends
C8_FailureReachesConsumer == WaitingOnFailedTask ~> (main.pc # "wait")

\* C9: a get_frame call with another index than the expected one raises
\* ValueError naming the expected index and changes nothing of the
\* prefetcher; only the expected index enters the wait loop
C9_OutOfOrderRejected ==
    [][(main.pc = "idle" /\ current_index < Len(indicies)) =>
        /\ (main'.pc = "wait" => main'.index = Expected)
        /\ (err' # err /\ err'.kind # "none" /\ main'.pc = "idle" =>
              /\ err'.kind = "ValueError"
              /\ err'.index # Expected
              /\ err'.expected = Expected
              /\ UNCHANGED <<current_index, buffer, in_progress, tasks, main>>)]_vars

\* an out-of-order call was rejected after the cursor had advanced, with a
\* result buffered and a task in flight
C9_Witness ==
    /\ err.kind = "ValueError"
    /\ current_index > 0
    /\ err.expected = Expected
    /\ DOMAIN buffer # {}
    /\ in_progress # {}

\* the answer _update_metadata derives from a query result
AnswerOf(result) ==
    IF result.confidence >= CONFIDENCE_THRESHOLD /\ result.label # "UNCLEAR"
    THEN (IF result.label = "YES" THEN "True" ELSE "False")
    ELSE None

RunComplete ==
    /\ Len(delivered) = Len(indicies)
    /\ Cardinality(IndexSet) = Len(indicies)
    /\ NoTaskFailed

\* C10: after a complete run over distinct indices, from an empty store
\* and without a failed task, every index of the sequence was queried
\* exactly once, no other index was queried, and every delivered result
\* carries the token and the answer of that one query
C10_OneQueryPerIndex ==
    RunComplete =>
        /\ \A i \in Indices :
              Len(iqlog[i]) = (IF i \in IndexSet THEN 1 ELSE 0)
        /\ \A k \in 1..Len(delivered) :
              /\ delivered[k].result.iq_id = 1
              /\ delivered[k].result.is_upside_down =
                    AnswerOf(iqlog[delivered[k].index][1])

\* a complete run over two distinct indices with a window and a pool of
\* two, one answer confident and one not
C10_Witness ==
    /\ RunComplete
    /\ Len(indicies) = 2
    /\ buffer_size = 2
    /\ num_workers = 2
    /\ delivered[1].result.is_upside_down = "False"
    /\ delivered[2].result.is_upside_down = None

\* the token a metadata file holds
TokenIn(file) == IF file.st = "json" THEN file.data.iq_id ELSE NoToken

ConstructorRaised(call) == call.raised \in {"FileNotFoundError", "JSONDecodeError"}

\* C11: update_frame on a Frame whose record holds no token raises
\* ValueError, asks and reads nothing from the query service, and leaves the
\* metadata file as the constructor of that Frame left it (the file as it
\* was before the call when there was one).
C11_UpdateWithoutToken ==
    \A k \in 1..Len(calls) :
        (/\ calls[k].op = "update"
         /\ ~ConstructorRaised(calls[k])
         /\ TokenIn(calls[k].constructed) = NoToken)
        => /\ calls[k].raised = "ValueError"
           /\ calls[k].asked = 0
           /\ calls[k].fetched = 0
           /\ calls[k].after = calls[k].constructed
           /\ (calls[k].before.st = "json" => calls[k].after = calls[k].before)
           /\ TokenIn(calls[k].after) = NoToken

C11_Witness ==
    /\ Len(calls) = 2
    /\ calls[1].op = "construct"
    /\ calls[1].raised = "none"
    /\ calls[2].op = "update"
    /\ calls[2].raised = "ValueError"
    /\ calls[2].before = JsonFile(initial_metadata)
    /\ disk[calls[2].idx] = JsonFile(initial_metadata)
    /\ iqlog[calls[2].idx] = <<>>

\* the calls of process_frame on index i that asked the query service
AskingCalls(i) ==
    {k \in 1..Len(calls) : calls[k].idx = i /\ calls[k].asked = 1}

\* C12: an update_frame that passes the token check never asks a new query;
\* without a stored answer it reads the stored query once and stores the
\* answer this result gives (none unless confident and clear), keeping the
\* token; with a stored answer it reads nothing and leaves the file as it
\* was.  Every query the service has seen was asked by a process_frame.
C12_UpdateOnlyRereads ==
    /\ \A i \in Indices :
          /\ Len(iqlog[i]) = Cardinality(AskingCalls(i))
          /\ \A k \in AskingCalls(i) : calls[k].op = "process"
    /\ \A k \in 1..Len(calls) :
          (calls[k].op = "update" /\ calls[k].raised = "none")
          => /\ calls[k].asked = 0
             /\ IF AnswerIn(calls[k].constructed) = None
                THEN /\ calls[k].fetched = 1
                     /\ AnswerIn(calls[k].after) = AnswerOf(calls[k].got)
                     /\ TokenIn(calls[k].after) = TokenIn(calls[k].constructed)
                ELSE /\ calls[k].fetched = 0
                     /\ calls[k].got = NoResult
                     /\ calls[k].after = calls[k].constructed
                     /\ calls[k].after = calls[k].before

C12_Witness ==
    /\ Len(calls) = 4
    /\ calls[1].op = "process"
    /\ AnswerIn(calls[1].after) = None
    /\ calls[2].op = "update"
    /\ calls[2].fetched = 1
    /\ AnswerIn(calls[2].after) = None
    /\ calls[3].op = "update"
    /\ calls[3].fetched = 1
    /\ AnswerIn(calls[3].after) = "True"
    /\ calls[4].op = "update"
    /\ calls[4].fetched = 0
    /\ calls[4].after = calls[3].after
    /\ Len(iqlog[calls[4].idx]) = 1

\* C13: a Frame built over a stored record R with defaults D holds R
\* extended with the keys only D has, every key of R keeping its value, and
\* has written this merged record to the file; built over no file, it holds
\* D and has written D.
C13_MergePreservingLoad ==
    /\ \A k \in 1..Len(calls) :
          calls[k].raised = "none"
          => IF calls[k].before.st = "json"
             THEN /\ DOMAIN calls[k].returned =
                       (DOMAIN calls[k].before.data) \cup (DOMAIN calls[k].defaults)
                  /\ \A key \in DOMAIN calls[k].before.data :
                        calls[k].returned[key] = calls[k].before.data[key]
                  /\ \A key \in (DOMAIN calls[k].defaults) \ (DOMAIN calls[k].before.data) :
                        calls[k].returned[key] = calls[k].defaults[key]
                  /\ calls[k].after = JsonFile(calls[k].returned)
             ELSE /\ calls[k].before = NoFile
                  /\ calls[k].returned = calls[k].defaults
                  /\ calls[k].after = JsonFile(calls[k].defaults)
    /\ Len(calls) > 0 => disk[calls[Len(calls)].idx] = calls[Len(calls)].after

C13_Witness ==
    /\ Len(calls) = 1
    /\ calls[1].raised = "none"
    /\ calls[1].before = JsonFile([a |-> 1])
    /\ calls[1].defaults = [a |-> 99, b |-> 2]
    /\ calls[1].returned = [a |-> 1, b |-> 2]
    /\ disk[calls[1].idx] = JsonFile([a |-> 1, b |-> 2])

\* C20: a Frame of an index without frame file raises FileNotFoundError and
\* leaves the metadata file of the index as it was, absent or not; a Frame
\* of an index with frame file and without metadata file raises nothing and
\* creates the file with exactly its defaults.
C20_MissingContentMissingRecord ==
    /\ \A k \in 1..Len(calls) :
          /\ calls[k].idx \notin frames
             => /\ calls[k].raised = "FileNotFoundError"
                /\ calls[k].after = calls[k].before
          /\ (calls[k].idx \in frames /\ calls[k].before = NoFile)
             => /\ calls[k].raised = "none"
                /\ calls[k].after = JsonFile(calls[k].defaults)
                /\ calls[k].returned = calls[k].defaults
    /\ Len(calls) > 0 => disk[calls[Len(calls)].idx] = calls[Len(calls)].after

C20_Witness ==
    /\ Len(calls) = 2
    /\ calls[1].idx \notin frames
    /\ calls[1].before = JsonFile([a |-> 1])
    /\ calls[1].raised = "FileNotFoundError"
    /\ disk[calls[1].idx] = JsonFile([a |-> 1])
    /\ calls[2].idx \in frames
    /\ calls[2].before = NoFile
    /\ calls[2].defaults = [a |-> 99, b |-> 2]
    /\ disk[calls[2].idx] = JsonFile([a |-> 99, b |-> 2])

\* C14: no load_metadata reads the file of an index while a save_metadata of
\* another Frame of this index has opened it and not yet written it: the
\* json.load of the consumer's Frame never raises on an empty file.
C14_SaveAtomic == err.kind # "JSONDecodeError"

\* C17: never more than num_workers tasks are running; a task that has not
\* started yet is queued with its index in in_progress.
C17_AtMostNumWorkersRunning ==
    /\ NumRunning <= num_workers
    /\ \A t \in 1..Len(tasks) :
          tasks[t].pc = "queued" => tasks[t].idx \in in_progress

C17_Witness ==
    /\ num_workers = 1
    /\ buffer_size = 2
    /\ NumRunning = 1
    /\ \E t \in 1..Len(tasks) :
          /\ tasks[t].pc = "queued"
          /\ tasks[t].idx \in in_progress
          /\ \E u \in 1..Len(tasks) : tasks[u].pc = "process"

\* C15: a FramePrefetcher built over an empty list of indices does not get
\* past its constructor.
C15_EmptySequenceRejected ==
    indicies = <<>> => main.pc \in {"construct", "ctor_failed"}

\* C16: a FramePrefetcher built with buffer_size < 1 or num_workers < 1
\* never stands ready for a get_frame call, nor waits in one.
C16_SizesRejected ==
    (buffer_size < 1 \/ num_workers < 1) => main.pc \notin {"idle", "wait"}

\* C18: in a process_frames run, the k-th call of the analysis function is
\* on the result of indicies[k], the result the k-th get_frame returned; it
\* comes before the next get_frame; and when the loop has ended there was
\* one call for every position of indicies.
C18_AnalysedOncePerPositionInOrder ==
    /\ Len(analysed) <= Len(delivered)
    /\ Len(delivered) <= Len(analysed) + 1
    /\ Len(delivered) <= Len(indicies)
    /\ \A k \in 1..Len(analysed) :
          /\ analysed[k].index = indicies[k]
          /\ analysed[k] = delivered[k]
    /\ main.pc = "done" => Len(analysed) = Len(indicies)

C18_Witness ==
    /\ main.pc = "done"
    /\ indicies = <<1, 0, 1>>
    /\ Len(analysed) = 3
    /\ tasks[1].idx = 0
    /\ analysed[1].index = 1
    /\ analysed[2].index = 0
    /\ analysed[3].index = 1

\* C19: in a run that follows a completed warm-up, over indices that were
\* warmed up, the query service is never asked: every task that gets to
\* process_frame finds a token, and every result get_frame returns is the
\* record the warm-up left for its index.
C19_WarmedRunAsksNothing ==
    warmed.done
    => /\ iqlog = warmed.iqlog
       /\ \A t \in 1..Len(tasks) :
             tasks[t].pc = "process" => ~NeedsQuery(tasks[t].metadata)
       /\ \A k \in 1..Len(delivered) :
             /\ delivered[k].index = indicies[k]
             /\ JsonFile(delivered[k].result) = warmed.disk[indicies[k]]

C19_Witness ==
    /\ warmed.done
    /\ warmed.later = "process_frames"
    /\ main.ff
    /\ main.pc = "idle"
    /\ indicies = <<1, 0>>
    /\ Len(delivered) = 2
    /\ Len(tasks) = 2
    /\ delivered[1].result.iq_id # NoToken
    /\ delivered[1].result.is_upside_down = None
    /\ delivered[2].result.is_upside_down = "True"

\* the indices at the buffer_size positions from the cursor on, cut at the
\* end of the sequence
LookAhead ==
    {indicies[k] : k \in {j \in 1..Len(indicies) :
                             j > current_index /\ j <= current_index + buffer_size}}

\* C21: when the constructor or a get_frame call has returned and no task
\* has failed, every index of the look-ahead window is in the buffer or in
\* in_progress; and what _schedule_prefetch is about to submit, or has just
\* submitted, is an index of the window.
C21_WindowScheduled ==
    /\ (main.pc \in {"idle", "wait"} /\ NoTaskFailed)
       => LookAhead \subseteq ((DOMAIN buffer) \cup in_progress)
    /\ main.pc \in {"submit", "add_callback"} => main.todo \subseteq LookAhead
    /\ main.pc = "add_callback" => tasks[Len(tasks)].idx \in LookAhead

C21_Witness ==
    /\ main.pc = "idle"
    /\ NoTaskFailed
    /\ Len(delivered) = 1
    /\ indicies = <<0, 1, 0>>
    /\ buffer_size = 2
    /\ DOMAIN buffer = {1}
    /\ in_progress = {0}
    /\ Len(tasks) = 3

\* C23: as long as no task has failed, in_progress and the keys of buffer
\* are disjoint and are indices of the look-ahead window, so that together
\* they are at most buffer_size and buffer holds no result of a position
\* that was consumed already.
C23_InFlightAndBufferedInWindow ==
    NoTaskFailed
    => /\ in_progress \cap (DOMAIN buffer) = {}
       /\ in_progress \subseteq LookAhead
       /\ (DOMAIN buffer) \subseteq LookAhead
       /\ Cardinality(in_progress) + Cardinality(DOMAIN buffer) <= buffer_size

\* between the pop of get_frame and its _schedule_prefetch, the window
\* having moved on over a result that stays buffered
C23_Witness ==
    /\ NoTaskFailed
    /\ main.pc = "schedule"
    /\ main.after = "get"
    /\ current_index = 2
    /\ indicies = <<0, 1, 0>>
    /\ buffer_size = 2
    /\ DOMAIN buffer = {0}
    /\ in_progress = {}

\* the consumer is inside the constructor or inside a get_frame call
InPrefetcherCall == main.pc \in {"schedule", "submit", "add_callback", "wait", "stuck"}

\* C22 (as claimed): with fair threads and as long as no task fails, the
\* constructor and every get_frame call in order return.
C22_CallsReturn ==
    (InPrefetcherCall /\ NoTaskFailed) ~> (main.pc = "idle" \/ ~NoTaskFailed)

====
